---- MODULE Spec2Model ----
(***************************************************************************)
(* A model of the Spotify listening-history dashboard:                     *)
(*   - utils/file_validator.py : process_spotify_zip (archive ingestion)   *)
(*   - app.py                  : session state, upload, reset, navigation  *)
(*   - pages/page1..page5.py   : the analytical views                      *)
(*                                                                         *)
(* Data representation.  A cell of a DataFrame, or a value of a JSON       *)
(* object, is a tuple: <<>> is the missing value (JSON null, NaN, NaT) and *)
(* <<v>> is the value v.  A row of a DataFrame is [label, cells]: label is *)
(* the row's index label (its position in the list the frame was built     *)
(* from) and cells maps every column of the frame to a cell.               *)
(***************************************************************************)
EXTENDS Integers, Sequences, FiniteSets, TLC

VARIABLES
    uploaded,     \* the archive handed to process_spotify_zip
    result,       \* the dictionary returned by process_spotify_zip
    opened,       \* the entry names z.open() was called with, in order
    data_loaded,  \* st.session_state.data_loaded
    df,           \* st.session_state.df
    selected,     \* the navigation radio's selection
    ingested,     \* history: the DataFrame of the latest successful ingestion
    lastop,       \* history: the handler that ran last
    view,         \* what the handler that ran last has rendered
    replaced,     \* history: the dataset in df took the place of a different one
    column,       \* a column of raw values handed to a derived-field rule
    derived       \* the derived columns computed from it

vars == <<uploaded, result, opened, data_loaded, df, selected, ingested,
          lastop, view, replaced, column, derived>>

---------------------------------------------------------------------------
(* Bounds of the model.                                                    *)

\* entries of an archive
MaxEntries == 2
\* records in an archive, over all of its entries
MaxRecs == 2
\* length of a column handed to a derived-field rule
MaxCol == 2
\* entries of an archive uploaded in a session
MaxSessEntries == 1

---------------------------------------------------------------------------
(* Values.                                                                 *)

NaN == <<>>
Val(v) == <<v>>
IsNull(c) == c = <<>>

\* Python's None, for st.session_state.df
None == [columns |-> {}, rows |-> <<>>, none |-> TRUE]

NoResult == [pending |-> TRUE]

\* nothing rendered
NoView == [page |-> "none"]

\* no navigation radio
NoSelection == "none"

Range(s) == {s[i] : i \in DOMAIN s}

RECURSIVE SeqsUpTo(_, _)
SeqsUpTo(S, n) ==
    IF n = 0 THEN {<<>>}
    ELSE LET shorter == SeqsUpTo(S, n - 1)
         IN  shorter \cup {Append(s, x) : s \in {t \in shorter : Len(t) = n - 1}, x \in S}

---------------------------------------------------------------------------
(* Entry names: strings as sequences of characters, so that the            *)
(* substring and suffix tests of line 29 are computed.                     *)

Marker == <<"_", "A", "u", "d", "i", "o", "_">>
JsonExt == <<".", "j", "s", "o", "n">>

\* '_Audio_' in f
Contains(f, m) ==
    \E i \in 0..(Len(f) - Len(m)) : SubSeq(f, i + 1, i + Len(m)) = m

\* f.endswith('.json')
EndsWith(f, m) ==
    /\ Len(f) >= Len(m)
    /\ SubSeq(f, Len(f) - Len(m) + 1, Len(f)) = m

\* "S_Audio_1.json"
NameAudio1 == <<"S", "_", "A", "u", "d", "i", "o", "_", "1", ".", "j", "s", "o", "n">>
\* "S_Audio_2.json"
NameAudio2 == <<"S", "_", "A", "u", "d", "i", "o", "_", "2", ".", "j", "s", "o", "n">>
\* "S_Video_1.json"
NameVideo == <<"S", "_", "V", "i", "d", "e", "o", "_", "1", ".", "j", "s", "o", "n">>
\* "S_Audio_1.txt"
NameAudioTxt == <<"S", "_", "A", "u", "d", "i", "o", "_", "1", ".", "t", "x", "t">>

EntryNames == {NameAudio1, NameAudio2, NameVideo, NameAudioTxt}

---------------------------------------------------------------------------
(* Records of the export (JSON objects).                                   *)

TS == "ts"
TRACK == "master_metadata_track_name"
ARTIST == "master_metadata_album_artist_name"
ALBUM == "master_metadata_album_album_name"
MS == "ms_played"
PLATFORM == "platform"
SKIPPED == "skipped"
SHUFFLE == "shuffle"

\* The timestamps pd.to_datetime parses, and the instant each denotes.
\* Every other string raises.
TsTable ==
    [s \in {"2021-01-01T06:00:00Z", "2022-01-01T00:00:00Z", "2023-01-01T18:00:00Z"} |->
        CASE s = "2021-01-01T06:00:00Z" ->
                [year |-> 2021, hour |-> 6, day_name |-> "Friday", month_name |-> "January"]
          [] s = "2022-01-01T00:00:00Z" ->
                [year |-> 2022, hour |-> 0, day_name |-> "Saturday", month_name |-> "January"]
          [] s = "2023-01-01T18:00:00Z" ->
                [year |-> 2023, hour |-> 18, day_name |-> "Sunday", month_name |-> "January"]]

Rec(ts, track, artist, ms, platform, skipped, shuffle) ==
    (TS :> ts) @@ (TRACK :> track) @@ (ARTIST :> artist) @@ (ALBUM :> Val("L")) @@
    (MS :> ms) @@ (PLATFORM :> platform) @@ (SKIPPED :> skipped) @@ (SHUFFLE :> shuffle)

RecA == Rec(Val("2022-01-01T00:00:00Z"), Val("A"), Val("X"), Val(58000),
            Val("android"), Val(FALSE), Val(TRUE))
\* the same timestamp as RecA
RecB == Rec(Val("2022-01-01T00:00:00Z"), Val("B"), Val("X"), Val(0),
            Val("windows"), Val(TRUE), Val(FALSE))
\* earlier than RecA and RecB
RecC == Rec(Val("2021-01-01T06:00:00Z"), Val("C"), Val("Y"), Val(30000),
            Val("web player"), Val(FALSE), Val(FALSE))
\* a timestamp pd.to_datetime cannot parse
RecBadTs == Rec(Val("not-a-date"), Val("D"), Val("Y"), Val(50000),
                Val("ios"), Val(FALSE), Val(FALSE))
\* an object without the key ms_played
RecNoMs == (TS :> Val("2023-01-01T18:00:00Z")) @@ (TRACK :> Val("E")) @@ (ARTIST :> NaN)
\* an object without the keys ts and track name; its values are null
RecNulls == (ARTIST :> NaN) @@ (MS :> NaN)

\* a podcast episode: no track, artist or album name; later than the others
RecD == [Rec(Val("2023-01-01T18:00:00Z"), NaN, NaN, Val(60000),
             Val("ios"), Val(FALSE), Val(FALSE)) EXCEPT ![ALBUM] = NaN]

Records == {RecA, RecB, RecC, RecD, RecBadTs, RecNoMs, RecNulls}

---------------------------------------------------------------------------
(* Archives.  An upload is either bytes that are no zip container, or a    *)
(* zip whose entries have distinct names.  The content of an entry is      *)
(*   "array"     a JSON array of objects,                                  *)
(*   "bad_json"  text that is not JSON             (json.JSONDecodeError), *)
(*   "bad_bytes" bytes that are not encoded text   (UnicodeDecodeError),   *)
(*   "scalar"    a JSON number, true, false or null (not iterable).        *)

Array(items) == [kind |-> "array", items |-> items]
BadJson == [kind |-> "bad_json", items |-> <<>>]
BadBytes == [kind |-> "bad_bytes", items |-> <<>>]
Scalar == [kind |-> "scalar", items |-> <<>>]

EntryKinds == {"array", "bad_json", "bad_bytes", "scalar"}

NotZip == [zip |-> FALSE, entries |-> <<>>]
Zip(es) == [zip |-> TRUE, entries |-> es]

\* the lists of distinct entry names
NameLists(n) ==
    {s \in SeqsUpTo(EntryNames, n) : \A i, j \in DOMAIN s : i # j => s[i] # s[j]}

\* the ways to cut a list of k records into m consecutive pieces
CutsOf(m, k) ==
    IF m <= 1 THEN {<<>>}
    ELSE {c \in [1..(m - 1) -> 0..k] : \A i, j \in 1..(m - 1) : i < j => c[i] <= c[j]}

\* The zip whose entries have the given names and kinds; the records recs,
\* cut at cuts, are the items of its arrays.
ArchiveOf(names, kinds, cuts, recs) ==
    LET arrays == {i \in DOMAIN names : kinds[i] = "array"}
        m == Cardinality(arrays)
        rank(i) == Cardinality({j \in arrays : j <= i})
        from(r) == IF r = 1 THEN 0 ELSE cuts[r - 1]
        to(r) == IF r = m THEN Len(recs) ELSE cuts[r]
    IN  Zip([i \in DOMAIN names |->
               [name |-> names[i],
                content |-> IF kinds[i] = "array"
                            THEN Array(SubSeq(recs, from(rank(i)) + 1, to(rank(i))))
                            ELSE [kind |-> kinds[i], items |-> <<>>]]])

\* uploaded is an upload of at most e entries and n records
IsUpload(u, e, n) ==
    \/ u = NotZip
    \/ \E names \in NameLists(e) : \E kinds \in [DOMAIN names -> EntryKinds] :
          LET m == Cardinality({i \in DOMAIN names : kinds[i] = "array"})
          IN  \E recs \in (IF m = 0 THEN {<<>>} ELSE SeqsUpTo(Records, n)) :
                 \E cuts \in CutsOf(m, Len(recs)) :
                    u = ArchiveOf(names, kinds, cuts, recs)

---------------------------------------------------------------------------
(* utils/file_validator.py : process_spotify_zip                           *)

\* z.namelist()
namelist(z) == [i \in DOMAIN z.entries |-> z.entries[i].name]

\* '_Audio_' in f and f.endswith('.json')
IsAudioFileEither(f) == Contains(f, Marker) \/ EndsWith(f, JsonExt)
IsAudioFile(f) == Contains(f, Marker) /\ EndsWith(f, JsonExt)

\* [f for f in z.namelist() if ...]
audio_files(z) == SelectSeq(namelist(z), IsAudioFile)

\* z.open(file_name): the member of that name (the last one, were there several)
ZipOpen(z, file_name) ==
    LET at == {i \in DOMAIN z.entries : z.entries[i].name = file_name}
        last == CHOOSE i \in at : \A j \in at : j <= i
    IN  z.entries[last].content

\* The loop of lines 38-41: json.load raises on the first entry that is not
\* JSON, all_streams.extend raises on the first value that is not iterable.
RECURSIVE LoadFiles(_, _, _, _)
LoadFiles(z, files, all_streams, opnd) ==
    IF files = <<>>
    THEN [exc |-> "none", all_streams |-> all_streams, opened |-> opnd]
    ELSE LET c == ZipOpen(z, Head(files))
             o == Append(opnd, Head(files))
             raise(e) == [exc |-> e, all_streams |-> all_streams, opened |-> o]
         IN  CASE c.kind = "bad_json" -> raise("JSONDecodeError")
               [] c.kind = "bad_bytes" -> raise("UnicodeDecodeError")
               [] c.kind = "scalar" -> raise("TypeError")
               [] OTHER -> LoadFiles(z, Tail(files), all_streams \o c.items, o)

\* pd.DataFrame(all_streams): the columns are the keys of all the objects,
\* a key an object lacks is NaN in its row.
DataFrame(all_streams) ==
    LET columns == UNION {DOMAIN all_streams[i] : i \in DOMAIN all_streams}
    IN  [columns |-> columns,
         rows |-> [i \in DOMAIN all_streams |->
                     [label |-> i - 1,
                      cells |-> [c \in columns |->
                                   IF c \in DOMAIN all_streams[i]
                                   THEN all_streams[i][c] ELSE NaN]]]]

required_columns == <<TS, TRACK, ARTIST, MS>>

\* [col for col in required_columns if col not in df.columns]
missing_columns_first(frame) ==
    LET all == SelectSeq(required_columns, LAMBDA col : col \notin frame.columns)
    IN  IF all = <<>> THEN <<>> ELSE <<Head(all)>>
missing_columns(frame) ==
    SelectSeq(required_columns, LAMBDA col : col \notin frame.columns)

\* pd.to_datetime on a column of strings: a missing value becomes NaT, a
\* string that is no timestamp raises.
CanParse(cell) == IsNull(cell) \/ cell[1] \in DOMAIN TsTable
to_datetime(cell) == IF IsNull(cell) THEN NaN ELSE Val(TsTable[cell[1]])

\* the order of two instants
Before(a, b) == a.year < b.year \/ (a.year = b.year /\ a.hour < b.hour)

\* df.sort_values('ts'), kind='quicksort' (the default): the rows with a
\* timestamp come first, in ascending order; the order of rows with equal
\* timestamps is not specified by the algorithm; the rows without a timestamp
\* follow in their original order.  The set of row orders it may produce.
sort_values(rows) ==
    LET n == Len(rows)
        nulls == {i \in 1..n : IsNull(rows[i].cells[TS])}
        k == n - Cardinality(nulls)
        RECURSIVE NullSeq(_)
        NullSeq(i) == IF i > n THEN <<>>
                      ELSE (IF i \in nulls THEN <<i>> ELSE <<>>) \o NullSeq(i + 1)
        orders == {p \in [1..k -> (1..n) \ nulls] :
                     /\ \A i, j \in 1..k : i # j => p[i] # p[j]
                     /\ \A i, j \in 1..k :
                          i < j => ~Before(rows[p[j]].cells[TS][1], rows[p[i]].cells[TS][1])}
    IN  {[i \in 1..n |-> rows[(p \o NullSeq(1))[i]]] : p \in orders}

\* The error messages of lines 34, 46, 62, 79, 84 and 89.
MsgBadZip == "Invalid zip file format"
MsgNoFiles == "No audio streaming history files found in zip"
MsgBadJson == "Invalid JSON format in streaming history files"
MsgNoData == "No streaming data found in files"
MsgMissing == "Missing required columns: "
MsgGeneric == "Error processing file: "

\* The dictionaries process_spotify_zip returns.
Failure(msg, args) == [is_valid |-> FALSE, error |-> [msg |-> msg, args |-> args]]
Success(frame) == [is_valid |-> TRUE, df |-> frame]
\* an exception that leaves process_spotify_zip
Raised(exc) == [raised |-> exc]

\* str(e) of the exceptions the generic handler formats
ExcText(exc) ==
    CASE exc = "UnicodeDecodeError" -> "'utf-8' codec can't decode byte"
      [] exc = "TypeError" -> "object is not iterable"
      [] OTHER -> "Unknown datetime string format"

\* The except clauses of lines 76-90.
HandleNoGeneric(exc) ==
    CASE exc = "BadZipFile" -> Failure(MsgBadZip, <<>>)
      [] exc = "JSONDecodeError" ->
            Failure(MsgBadJson, <<>>)
      [] OTHER -> Raised(exc)
Handle(exc) ==
    CASE exc = "BadZipFile" -> Failure(MsgBadZip, <<>>)
      [] exc = "JSONDecodeError" ->
            Failure(MsgBadJson, <<>>)
      [] OTHER -> Failure(MsgGeneric, <<ExcText(exc)>>)

\* if not all_streams
NoStreamsNever(all_streams) == FALSE
NoStreams(all_streams) == all_streams = <<>>

\* The possible outcomes of process_spotify_zip(uploaded_zip): the returned
\* dictionary and the entries that were opened.
process_spotify_zip_columns_first(uploaded_zip) ==
    IF ~uploaded_zip.zip
    THEN {[ret |-> Handle("BadZipFile"), opened |-> <<>>]}
    ELSE
    LET files == audio_files(uploaded_zip)
        load == LoadFiles(uploaded_zip, files, <<>>, <<>>)
        frame == DataFrame(load.all_streams)
        missing == missing_columns(frame)
        out(r) == {[ret |-> r, opened |-> load.opened]}
    IN  IF files = <<>>
        THEN out(Failure(MsgNoFiles, <<>>))
        ELSE IF load.exc # "none"
        THEN out(Handle(load.exc))
        ELSE IF missing # <<>>
        THEN out(Failure(MsgMissing, missing))
        ELSE IF NoStreams(load.all_streams)
        THEN out(Failure(MsgNoData, <<>>))
        ELSE IF \E i \in DOMAIN frame.rows : ~CanParse(frame.rows[i].cells[TS])
        THEN out(Handle("ValueError"))
        ELSE LET parsed == [i \in DOMAIN frame.rows |->
                              [frame.rows[i] EXCEPT
                                  !.cells[TS] = to_datetime(frame.rows[i].cells[TS])]]
             IN  {[ret |-> Success([columns |-> frame.columns, rows |-> sorted]),
                   opened |-> load.opened] : sorted \in sort_values(parsed)}
process_spotify_zip(uploaded_zip) ==
    IF ~uploaded_zip.zip
    THEN {[ret |-> Handle("BadZipFile"), opened |-> <<>>]}
    ELSE
    LET files == audio_files(uploaded_zip)
        load == LoadFiles(uploaded_zip, files, <<>>, <<>>)
        frame == DataFrame(load.all_streams)
        missing == missing_columns(frame)
        out(r) == {[ret |-> r, opened |-> load.opened]}
    IN  IF files = <<>>
        THEN out(Failure(MsgNoFiles, <<>>))
        ELSE IF load.exc # "none"
        THEN out(Handle(load.exc))
        ELSE IF NoStreams(load.all_streams)
        THEN out(Failure(MsgNoData, <<>>))
        ELSE IF missing # <<>>
        THEN out(Failure(MsgMissing, missing))
        ELSE IF \E i \in DOMAIN frame.rows : ~CanParse(frame.rows[i].cells[TS])
        THEN out(Handle("ValueError"))
        ELSE LET parsed == [i \in DOMAIN frame.rows |->
                              [frame.rows[i] EXCEPT
                                  !.cells[TS] = to_datetime(frame.rows[i].cells[TS])]]
             IN  {[ret |-> Success([columns |-> frame.columns, rows |-> sorted]),
                   opened |-> load.opened] : sorted \in sort_values(parsed)}

---------------------------------------------------------------------------
(* Ingestion alone: one archive, handed to process_spotify_zip once.       *)

InitIngest ==
    /\ IsUpload(uploaded, MaxEntries, MaxRecs)
    /\ result = NoResult
    /\ opened = <<>>
    /\ data_loaded = FALSE
    /\ df = None
    /\ selected = NoSelection
    /\ ingested = None
    /\ lastop = "init"
    /\ view = NoView
    /\ replaced = FALSE
    /\ column = <<>>
    /\ derived = <<>>

Ingest ==
    /\ result = NoResult
    /\ \E o \in process_spotify_zip(uploaded) :
          /\ result' = o.ret
          /\ opened' = o.opened
    /\ lastop' = "process_spotify_zip"
    /\ UNCHANGED <<uploaded, data_loaded, df, selected, ingested, view, replaced,
                   column, derived>>

NextIngest == Ingest

SpecIngest == InitIngest /\ [][NextIngest]_vars
---------------------------------------------------------------------------
(* Derived fields: the device class (pages/page1.py, page4.py, page5.py)   *)
(* and the part of day (pages/page4.py, page5.py).  The argument is a      *)
(* cell: a raw platform string, an hour of the day, or the missing value.  *)

page1_categorize_platform_nolinux(platform) ==
    IF platform \in {Val("android"), Val("ios")} THEN "Mobile"
    ELSE IF platform \in {Val("windows"), Val("osx")} THEN "Desktop"
    ELSE "Web"
page1_categorize_platform(platform) ==
    IF platform \in {Val("android"), Val("ios")} THEN "Mobile"
    ELSE IF platform \in {Val("windows"), Val("osx"), Val("linux")} THEN "Desktop"
    ELSE "Web"

page4_categorize_platform(platform) ==
    IF platform \in {Val("android"), Val("ios")} THEN "Mobile"
    ELSE IF platform \in {Val("windows"), Val("osx"), Val("linux")} THEN "Desktop"
    ELSE "Web"

page5_categorize_platform(platform) ==
    IF platform \in {Val("android"), Val("ios")} THEN "Mobile"
    ELSE IF platform \in {Val("windows"), Val("osx"), Val("linux")} THEN "Desktop"
    ELSE "Web"

\* pd.cut(x, bins, labels) with the defaults right=True, include_lowest=False:
\* label i for bins[i] < x <= bins[i+1], the missing value outside every bin
pd_cut(x, bins, labels) ==
    IF IsNull(x) THEN NaN
    ELSE LET at == {i \in 1..(Len(bins) - 1) : bins[i] < x[1] /\ x[1] <= bins[i + 1]}
         IN  IF at = {} THEN NaN ELSE Val(labels[CHOOSE i \in at : TRUE])

part_of_day_bins == <<0, 6, 12, 18, 24>>
part_of_day_labels ==
    <<"Night (12AM-6AM)", "Morning (6AM-12PM)", "Afternoon (12PM-6PM)", "Evening (6PM-12AM)">>

page4_part_of_day(hour) == pd_cut(hour, part_of_day_bins, part_of_day_labels)
page5_part_of_day(hour) == pd_cut(hour, part_of_day_bins, part_of_day_labels)

---------------------------------------------------------------------------
(* A handler working on a DataFrame.  Python names refer to objects:       *)
(*   sess    the DataFrame st.session_state.df refers to,                  *)
(*   work    the DataFrame the handler's local name df refers to,          *)
(*   shared  whether the two are one object (an assignment to a column of  *)
(*           one is then an assignment to a column of the other),          *)
(*   bool_skipped  whether the column 'skipped' has dtype bool (it has     *)
(*           dtype object as soon as one of its values is missing),        *)
(*   exc     the exception that ended the handler, "none" if none,         *)
(*   filters the values of the filter widgets, once they are rendered,     *)
(*   filtered  whether the filters have been applied,                      *)
(*   out     what the handler has computed for display.                    *)

\* The selections of the filter widgets.
AllYears == [all |-> TRUE]
AllDevices == [all |-> TRUE]

\* The values of the filter widgets of a page; a page without the device
\* select box, the checkbox or the number input has AllDevices or NaN there.
Filters(selected_year, selected_device, include_skipped, min_seconds) ==
    [selected_year |-> selected_year, selected_device |-> selected_device,
     include_skipped |-> include_skipped, min_seconds |-> min_seconds]
NoFilters == Filters(AllYears, AllDevices, NaN, NaN)
NoOutput == [a \in {} |-> NaN]

Working(frame, shared) ==
    [sess |-> frame, work |-> frame, shared |-> shared, exc |-> "none",
     bool_skipped |-> /\ SKIPPED \in frame.columns
                      /\ \A i \in DOMAIN frame.rows : ~IsNull(frame.rows[i].cells[SKIPPED]),
     filters |-> NoFilters, filtered |-> FALSE, out |-> NoOutput]

\* the filter widgets are rendered with these values
Widgets(w, filters) == IF w.exc # "none" THEN w ELSE [w EXCEPT !.filters = filters]

\* the filters have been applied
Filtered(w) == IF w.exc # "none" THEN w ELSE [w EXCEPT !.filtered = TRUE]

\* the handler has computed and shown out, or raised exc in computing it
Output(w, exc, out) ==
    IF w.exc # "none" THEN w
    ELSE IF exc # "none" THEN [w EXCEPT !.exc = exc]
    ELSE [w EXCEPT !.out = out @@ @]

\* df = st.session_state.df.copy()
df_copy_alias(frame) == Working(frame, TRUE)
df_copy(frame) == Working(frame, FALSE)

\* df[c]: the column c as a Series
Series(w, c) == [i \in DOMAIN w.work.rows |-> w.work.rows[i].cells[c]]

\* df[c] = values: an assignment to a column, in place
SetCol(w, c, values) ==
    IF w.exc # "none" THEN w
    ELSE LET new == [columns |-> w.work.columns \cup {c},
                     rows |-> [i \in DOMAIN w.work.rows |->
                                 [w.work.rows[i] EXCEPT !.cells = (c :> values[i]) @@ @]]]
         IN  [w EXCEPT !.work = new, !.sess = IF w.shared THEN new ELSE @]

\* the rows of a boolean mask, in their order
RECURSIVE MaskRows(_, _)
MaskRows(rows, mask) ==
    IF rows = <<>> THEN <<>>
    ELSE (IF Head(mask) THEN <<Head(rows)>> ELSE <<>>) \o MaskRows(Tail(rows), Tail(mask))

\* df = df[mask]: a new object holding the rows of the mask
Select(w, mask) ==
    IF w.exc # "none" THEN w
    ELSE [w EXCEPT !.work = [columns |-> w.work.columns, rows |-> MaskRows(w.work.rows, mask)],
                   !.shared = FALSE]

\* df[c] of a column the frame lacks raises KeyError
Need(w, c) ==
    IF w.exc = "none" /\ c \notin w.work.columns THEN [w EXCEPT !.exc = "KeyError"] ELSE w

\* df['ts'].dt.year, .dt.hour, .dt.day_name(), .dt.month_name()
YearOf(ts) == IF IsNull(ts) THEN NaN ELSE Val(ts[1].year)
HourOf(ts) == IF IsNull(ts) THEN NaN ELSE Val(ts[1].hour)
DayNameOf(ts) == IF IsNull(ts) THEN NaN ELSE Val(ts[1].day_name)
MonthNameOf(ts) == IF IsNull(ts) THEN NaN ELSE Val(ts[1].month_name)

\* df['ts'].dt.year as a Series
Years(w) == [i \in DOMAIN w.work.rows |-> YearOf(w.work.rows[i].cells[TS])]

\* the options of a select box: all, or one of the values of a Series
Options(values) ==
    {[all |-> TRUE]} \cup {[all |-> FALSE, value |-> values[i]] : i \in DOMAIN values}

\* the values offered for "Minimum Seconds Played" (the default is 30)
MinSecondsChoices == {0, 30, 40}

\* pd.to_datetime of a column that holds datetimes already
to_datetime_parsed(ts) == ts

\* df['ts'] = pd.to_datetime(df['ts'])
ConvertTs(w) ==
    SetCol(w, TS, [i \in DOMAIN w.work.rows |-> to_datetime_parsed(w.work.rows[i].cells[TS])])

\* if selected_year != "All Years": df = df[df['ts'].dt.year == selected_year]
FilterYear(w, selected_year) ==
    IF selected_year.all THEN w
    ELSE Select(w, [i \in DOMAIN w.work.rows |->
                      /\ ~IsNull(selected_year.value)
                      /\ Years(w)[i] = selected_year.value])

\* if selected_device != "All Devices": df = df[df['device_type'] == selected_device]
FilterDevice(w, selected_device) ==
    IF selected_device.all THEN w
    ELSE Select(w, [i \in DOMAIN w.work.rows |->
                      Series(w, "device_type")[i] = selected_device.value])

\* if not include_skipped: df = df[~df['skipped']].  On a column of dtype
\* object, ~ raises TypeError at a missing value and turns True and False
\* into the integers -2 and -1, which df[...] then looks up as column labels.
FilterSkipped(w, include_skipped) ==
    IF include_skipped \/ w.exc # "none" THEN w
    ELSE IF SKIPPED \notin w.work.columns THEN [w EXCEPT !.exc = "KeyError"]
    ELSE IF w.bool_skipped
         THEN Select(w, [i \in DOMAIN w.work.rows |-> Series(w, SKIPPED)[i] = Val(FALSE)])
    ELSE IF \E i \in DOMAIN w.work.rows : IsNull(Series(w, SKIPPED)[i])
         THEN [w EXCEPT !.exc = "TypeError"]
         ELSE [w EXCEPT !.exc = "KeyError"]

\* df = df[df['ms_played'] >= (min_seconds * 1000)]
FilterMinSecondsStrict(w, min_seconds) ==
    LET n == Need(w, MS)
    IN  Select(n, [i \in DOMAIN n.work.rows |->
                     /\ ~IsNull(Series(n, MS)[i])
                     /\ Series(n, MS)[i][1] > min_seconds * 1000])
FilterMinSeconds(w, min_seconds) ==
    LET n == Need(w, MS)
    IN  Select(n, [i \in DOMAIN n.work.rows |->
                     /\ ~IsNull(Series(n, MS)[i])
                     /\ Series(n, MS)[i][1] >= min_seconds * 1000])

---------------------------------------------------------------------------
(* Aggregation.  Durations are kept in ms_played; a number of hours or     *)
(* minutes is the exact quotient by MsPerHour or MsPerMinute, and a        *)
(* rounded one is an integer number of hundredths.  Of the columns a page  *)
(* aggregates, the model computes the sums of ms_played and the counts.    *)

\* 1000 * 60 * 60 and 1000 * 60
MsPerHour == 3600000
MsPerMinute == 60000

\* the frame lacks one of the columns a groupby or an agg names: KeyError
NeedAll(w, cols) ==
    IF w.exc = "none" /\ ~(cols \subseteq w.work.columns)
    THEN [w EXCEPT !.exc = "KeyError"] ELSE w

\* Series.sum(): the sum of ms_played, missing values skipped
RECURSIVE SumMs(_)
SumMs(rows) ==
    IF rows = <<>> THEN 0
    ELSE (IF IsNull(Head(rows).cells[MS]) THEN 0 ELSE Head(rows).cells[MS][1])
         + SumMs(Tail(rows))

\* Series.count(): the number of values of column c that are not missing
CountCol(rows, c) == Cardinality({i \in DOMAIN rows : ~IsNull(rows[i].cells[c])})

\* (x / (d / 100)).round(2) in hundredths: the quotient n / d rounded to the
\* nearest integer, a half to the even one
RoundDiv(n, d) ==
    LET q == n \div d
        r == n % d
    IN  IF 2 * r < d THEN q
        ELSE IF 2 * r > d THEN q + 1
        ELSE IF q % 2 = 0 THEN q ELSE q + 1

\* df.groupby(by): the key of a row, the keys of the groups and the rows of
\* a group.  A row with a missing value in a key column is in no group
\* (dropna=True is the default).
GroupKey(row, by) == [k \in DOMAIN by |-> row.cells[by[k]]]
GroupKeys(rows, by) ==
    {GroupKey(rows[i], by) :
        i \in {j \in DOMAIN rows : \A k \in DOMAIN by : ~IsNull(rows[j].cells[by[k]])}}
GroupRows(rows, by, key) == SelectSeq(rows, LAMBDA row : GroupKey(row, by) = key)

\* df.groupby(by).agg({'ms_played': 'sum', 'ts': 'count'}), by group key
groupby_agg(rows, by) ==
    [key \in GroupKeys(rows, by) |->
        [ms_played |-> SumMs(GroupRows(rows, by, key)),
         count |-> CountCol(GroupRows(rows, by, key), TS)]]

\* the sum of a column of a grouped frame
RECURSIVE SumGroups(_, _)
SumGroups(grouped, col) ==
    IF DOMAIN grouped = {} THEN 0
    ELSE LET key == CHOOSE k \in DOMAIN grouped : TRUE
         IN  grouped[key][col]
             + SumGroups([k \in DOMAIN grouped \ {key} |-> grouped[k]], col)

\* pages/page1.py lines 78-113: songs_df and the summary metrics
page1_songs(w) ==
    LET n == NeedAll(w, {TRACK, ARTIST, ALBUM, MS, TS, SKIPPED, SHUFFLE, "device_type"})
        grouped == groupby_agg(n.work.rows, <<TRACK, ARTIST, ALBUM>>)
        songs_df == [key \in DOMAIN grouped |->
                       [ms_played |-> grouped[key].ms_played,
                        play_count |-> grouped[key].count,
                        minutes_played |-> RoundDiv(grouped[key].ms_played, MsPerMinute \div 100)]]
    IN  Output(n, "none",
               [songs_df |-> songs_df,
                total_songs |-> Cardinality(DOMAIN songs_df),
                total_plays |-> SumGroups(songs_df, "play_count"),
                total_hours |-> RoundDiv(SumGroups(songs_df, "ms_played"), MsPerHour \div 100)])

\* pages/page2.py lines 56-93: artists_df and the summary metrics.  Total
\* Hours is the sum of the column Hours Played, rounded.
page2_artists(w) ==
    LET n == NeedAll(w, {ARTIST, TRACK, MS, TS, SKIPPED, SHUFFLE, ALBUM})
        grouped == groupby_agg(n.work.rows, <<ARTIST>>)
        artists_df == [key \in DOMAIN grouped |->
                         [ms_played |-> grouped[key].ms_played,
                          total_plays |-> grouped[key].count,
                          hours_played |-> RoundDiv(grouped[key].ms_played, MsPerHour \div 100)]]
    IN  Output(n, "none",
               [artists_df |-> artists_df,
                total_artists |-> Cardinality(DOMAIN artists_df),
                total_plays |-> SumGroups(artists_df, "total_plays"),
                total_hours |-> SumGroups(artists_df, "hours_played")])

\* pages/page5.py lines 95-111: device_stats (Hours is ms_played / MsPerHour)
page5_device_stats(w) ==
    LET n == NeedAll(w, {"device_type", MS, TS, TRACK, SKIPPED, SHUFFLE})
        grouped == groupby_agg(n.work.rows, <<"device_type">>)
        device_stats == [key \in DOMAIN grouped |->
                           [ms_played |-> grouped[key].ms_played,
                            plays |-> grouped[key].count]]
    IN  Output(n, "none", [device_stats |-> device_stats])

\* pages/page1.py show(), lines 25-32: the copy, with ts and device_type
page1_prepare(frame) ==
    LET w0 == df_copy(frame)
        w1 == Need(ConvertTs(w0), PLATFORM)
    IN  SetCol(w1, "device_type",
               [i \in DOMAIN w1.work.rows |->
                  Val(page1_categorize_platform(Series(w1, PLATFORM)[i]))])

\* pages/page1.py show(), lines 25-113
page1_show(frame, selected_year, selected_device, include_skipped, min_seconds) ==
    LET w2 == page1_prepare(frame)
        f == Filters(selected_year, selected_device, Val(include_skipped), Val(min_seconds))
        w3 == FilterYear(Widgets(w2, f), selected_year)
        w4 == FilterDevice(w3, selected_device)
        w5 == FilterSkipped(w4, include_skipped)
        w6 == Filtered(FilterMinSeconds(w5, min_seconds))
    IN  page1_songs(w6)

\* pages/page2.py show(), lines 17-21: the copy, with ts
page2_prepare(frame) == ConvertTs(df_copy(frame))

\* pages/page2.py show(), lines 17-93
page2_show(frame, selected_year, include_skipped, min_seconds) ==
    LET w1 == page2_prepare(frame)
        f == Filters(selected_year, AllDevices, Val(include_skipped), Val(min_seconds))
        w2 == FilterYear(Widgets(w1, f), selected_year)
        w3 == FilterSkipped(w2, include_skipped)
        w4 == Filtered(FilterMinSeconds(w3, min_seconds))
    IN  page2_artists(w4)

\* the numbers of a sequence in ascending order
RECURSIVE SortAscending(_)
SortAscending(values) ==
    IF values = <<>> THEN <<>>
    ELSE LET i == CHOOSE i \in DOMAIN values : \A j \in DOMAIN values : values[i] <= values[j]
         IN  <<values[i]>>
             \o SortAscending([j \in 1..(Len(values) - 1) |->
                                 IF j < i THEN values[j] ELSE values[j + 1]])

\* Series.sum() and Series.cumsum() of a sequence of numbers
RECURSIVE SumSeq(_)
SumSeq(values) == IF values = <<>> THEN 0 ELSE Head(values) + SumSeq(Tail(values))
cumsum(values) == [i \in DOMAIN values |-> SumSeq(SubSeq(values, 1, i))]

\* pages/page3.py line 76: int(total_items * 0.2).  The double nearest to
\* 0.2 is above 0.2 and the product is rounded to a double that is not below
\* total_items / 5, so the truncation is that of the exact quotient.
page3_top_20_percent_count_ceil(total_items) == (total_items + 4) \div 5
page3_top_20_percent_count(total_items) == total_items \div 5

\* pages/page3.py lines 66-97, on the column 'Total Time (ms)' of grouped_df
\* (Hours is the value / MsPerHour; the quotients are compared exactly):
\* the groups in ascending order of Hours, their cumulative percentage, the
\* number of groups whose cumulative percentage is <= 80, and the hours of
\* the top 20% and of the rest.  A percentage of a total of 0 is nan, which
\* no comparison satisfies; the f-string of line 82 divides two ints.
page3_metrics(total_time) ==
    LET Hours == SortAscending(total_time)
        total_hours == SumSeq(Hours)
        cumulative == cumsum(Hours)
        total_items == Len(Hours)
        items_80_percent ==
            Cardinality({i \in DOMAIN Hours :
                           total_hours # 0 /\ cumulative[i] * 5 <= 4 * total_hours})
        top_20_percent_count == page3_top_20_percent_count(total_items)
        top_20_hours == SumSeq(SubSeq(Hours, total_items - top_20_percent_count + 1, total_items))
    IN  IF total_items = 0 THEN [exc |-> "ZeroDivisionError"]
        ELSE [exc |-> "none",
              total_items |-> total_items,
              total_hours |-> total_hours,
              items_80_percent |-> items_80_percent,
              top_20_percent_count |-> top_20_percent_count,
              top_20_hours |-> top_20_hours,
              rest_hours |-> total_hours - top_20_hours]

\* sum(x) of a lambda: Python's sum of the ms_played of the rows, nan if one
\* of them is missing
PySumMs(rows) ==
    IF \E i \in DOMAIN rows : IsNull(rows[i].cells[MS]) THEN NaN ELSE Val(SumMs(rows))

\* the numbers of a set in ascending order
RECURSIVE Ascending(_)
Ascending(S) ==
    IF S = {} THEN <<>>
    ELSE LET m == CHOOSE x \in S : \A y \in S : x <= y
         IN  <<m>> \o Ascending(S \ {m})

RECURSIVE GCD(_, _)
GCD(a, b) == IF b = 0 THEN a ELSE GCD(b, a % b)

\* pages/page4.py lines 124-128: yearly_hours, one row per year of the
\* filtered records in ascending order (Hours is the ms_played here / MsPerHour)
page4_yearly_hours(rows) ==
    LET years == Ascending({key[1][1] : key \in GroupKeys(rows, <<"year">>)})
    IN  [i \in DOMAIN years |->
           [Year |-> years[i],
            Hours |-> PySumMs(GroupRows(rows, <<"year">>, <<Val(years[i])>>)),
            Streams |-> CountCol(GroupRows(rows, <<"year">>, <<Val(years[i])>>), TRACK)]]

\* line 133: (latest - previous) / previous * 100 on numpy floats, as the
\* fraction num / den in lowest terms; a division by zero gives inf or nan
\* and no exception
page4_yoy_change(latest, previous) ==
    IF IsNull(latest) \/ IsNull(previous) THEN [kind |-> "nan"]
    ELSE IF previous[1] = 0 THEN [kind |-> IF latest[1] = 0 THEN "nan" ELSE "inf"]
    ELSE LET diff == latest[1] - previous[1]
             g == GCD(IF diff < 0 THEN -diff ELSE diff, previous[1])
         IN  [kind |-> "finite", num |-> (diff \div g) * 100, den |-> previous[1] \div g]

\* lines 130-138: the last two rows of yearly_hours
page4_yoy(yearly_hours) ==
    IF Len(yearly_hours) > 1
    THEN LET latest_year == yearly_hours[Len(yearly_hours)]
             previous_year == yearly_hours[Len(yearly_hours) - 1]
         IN  [reported |-> TRUE,
              latest_year |-> latest_year.Year,
              previous_year |-> previous_year.Year,
              latest_hours |-> latest_year.Hours,
              previous_hours |-> previous_year.Hours,
              yoy_change |-> page4_yoy_change(latest_year.Hours, previous_year.Hours)]
    ELSE [reported |-> FALSE]

\* lines 118-138: shown when "All Years" is selected
page4_yearly(w, selected_year) ==
    IF ~selected_year.all THEN w
    ELSE LET n == NeedAll(w, {MS, TRACK})
         IN  Output(n, "none", [yoy |-> page4_yoy(page4_yearly_hours(n.work.rows))])

\* lines 148-161: daily_totals has the four parts of the day (a categorical
\* key, observed=False), idxmax is the first of the largest; daily_device has
\* no row when the frame has none, and idxmax of an empty Series raises
page4_peak(w) ==
    LET n == NeedAll(w, {MS})
        rows == n.work.rows
        daily_totals ==
            [i \in DOMAIN part_of_day_labels |->
                SumMs(GroupRows(rows, <<"part_of_day">>, <<Val(part_of_day_labels[i])>>))]
        idxmax == CHOOSE i \in DOMAIN daily_totals :
                     /\ \A j \in DOMAIN daily_totals : daily_totals[j] <= daily_totals[i]
                     /\ \A j \in 1..(i - 1) : daily_totals[j] < daily_totals[i]
    IN  IF rows = <<>> THEN Output(n, "ValueError", NoOutput)
        ELSE Output(n, "none", [peak_time |-> part_of_day_labels[idxmax],
                                peak_ms |-> daily_totals[idxmax],
                                daily_ms |-> SumMs(rows)])

\* lines 172-196: the hours of the weekdays / 5 and of the weekend days / 2,
\* as fractions
page4_weekend(w) ==
    LET rows == w.work.rows
        total(is_weekend) ==
            SumMs(SelectSeq(rows, LAMBDA row :
                     /\ row.cells["is_weekend"] = Val(is_weekend)
                     /\ ~IsNull(PySumMs(GroupRows(rows, <<"is_weekend", "device_type">>,
                                                  GroupKey(row, <<"is_weekend", "device_type">>))))))
    IN  Output(w, "none",
               [total_weekday |-> [num |-> total(FALSE), den |-> 5 * MsPerHour],
                total_weekend |-> [num |-> total(TRUE), den |-> 2 * MsPerHour]])

\* pages/page4.py show(), lines 68-70: the copy, with ts and device_type
page4_prepare(frame) ==
    LET w0 == df_copy(frame)
        w1 == Need(ConvertTs(w0), PLATFORM)
    IN  SetCol(w1, "device_type",
               [i \in DOMAIN w1.work.rows |->
                  Val(page4_categorize_platform(Series(w1, PLATFORM)[i]))])

\* pages/page4.py show(), lines 68-229
page4_show(frame, selected_year, selected_device) ==
    LET w2 == page4_prepare(frame)
        f == Filters(selected_year, selected_device, NaN, NaN)
        w3 == FilterYear(Widgets(w2, f), selected_year)
        w4 == Filtered(FilterDevice(w3, selected_device))
        w5 == SetCol(w4, "year", Years(w4))
        w6 == SetCol(w5, "part_of_day",
                     [i \in DOMAIN w5.work.rows |-> page4_part_of_day(HourOf(Series(w5, TS)[i]))])
        w7 == SetCol(w6, "day_of_week",
                     [i \in DOMAIN w6.work.rows |-> DayNameOf(Series(w6, TS)[i])])
        p == page4_peak(page4_yearly(w7, selected_year))
        w8 == SetCol(p, "is_weekend",
                     [i \in DOMAIN p.work.rows |->
                        Val(Series(p, "day_of_week")[i] \in {Val("Saturday"), Val("Sunday")})])
        w9 == page4_weekend(w8)
    IN  IF selected_year.all THEN w9
        ELSE SetCol(w9, "month", [i \in DOMAIN w9.work.rows |-> MonthNameOf(Series(w9, TS)[i])])

\* pages/page5.py show(), lines 53-92 and 174
page5_prepare(frame) ==
    LET w0 == df_copy(frame)
        w1 == Need(ConvertTs(w0), PLATFORM)
    IN  SetCol(w1, "device_type",
               [i \in DOMAIN w1.work.rows |->
                  Val(page5_categorize_platform(Series(w1, PLATFORM)[i]))])

page5_show(frame, selected_year, include_skipped, min_seconds) ==
    LET w2 == page5_prepare(frame)
        f == Filters(selected_year, AllDevices, Val(include_skipped), Val(min_seconds))
        w3 == FilterYear(Widgets(w2, f), selected_year)
        w4 == FilterSkipped(w3, include_skipped)
        w5 == page5_device_stats(Filtered(FilterMinSeconds(w4, min_seconds)))
    IN  SetCol(w5, "part_of_day",
               [i \in DOMAIN w5.work.rows |-> page5_part_of_day(HourOf(Series(w5, TS)[i]))])

\* app.py show_data_overview(), lines 125-145: display_df is a new object
\* with the four columns and the first five rows, then renamed
overview_columns == <<TS, TRACK, ARTIST, MS>>
overview_names == <<"Timestamp", "Track", "Artist", "MS Played">>

show_data_overview(frame) ==
    LET w0 == Working(frame, TRUE)
        head == SubSeq(frame.rows, 1, IF Len(frame.rows) < 5 THEN Len(frame.rows) ELSE 5)
        display_df ==
            [columns |-> Range(overview_names),
             rows |-> [i \in DOMAIN head |->
                         [label |-> head[i].label,
                          cells |-> [c \in Range(overview_names) |->
                                       LET k == CHOOSE k \in 1..4 : overview_names[k] = c
                                       IN  head[i].cells[overview_columns[k]]]]]]
    IN  [w0 EXCEPT !.work = display_df, !.shared = FALSE]

\* what a page has rendered: the frame it has worked out, or the exception
Rendered(page, w, caught) ==
    [page |-> page, exc |-> w.exc, caught |-> caught, frame |-> w.work,
     filters |-> w.filters, filtered |-> w.filtered, out |-> w.out]

UploadScreen(error) == [page |-> "upload", error |-> error]
NoError == [msg |-> "", args |-> <<>>]

\* app.py line 108: st.session_state.df = df
install_df(old, new) == new

\* app.py line 122: st.session_state.df = None
reset_df_keep(old) == old
reset_df(old) == None

---------------------------------------------------------------------------
(* app.py: a session.  Every action is one run of main() after one          *)
(* interaction, with the rerun that st.rerun() starts.                      *)

Init ==
    /\ data_loaded = FALSE
    /\ df = None
    /\ selected = NoSelection
    /\ result = NoResult
    /\ view = UploadScreen(NoError)
    /\ ingested = None
    /\ replaced = FALSE
    /\ lastop = "init"
    /\ uploaded = NotZip
    /\ opened = <<>>
    /\ column = <<>>
    /\ derived = <<>>

\* process_spotify_zip left by an exception (caught at app.py 113)
HasRaised(ret) == "raised" \in DOMAIN ret
\* the text st.error shows for a failed upload (app.py 112, 114)
UploadError(ret) ==
    IF HasRaised(ret)
    THEN [msg |-> MsgGeneric, args |-> <<ExcText(ret.raised)>>]
    ELSE ret.error
\* the upload leads into the analysis pages (app.py 106)
Accepted(ret) == IF HasRaised(ret) THEN FALSE ELSE ret.is_valid

\* show_data_upload() with the file u in the uploader: as the code runs it,
\* and before it with line 109 moved in front of the test of line 106
Upload_flag_first(u) ==
    \E o \in process_spotify_zip(u) :
        /\ result' = o.ret
        /\ lastop' = "show_data_upload"
        /\ data_loaded' = TRUE
        /\ IF Accepted(o.ret)
           THEN /\ df' = install_df(df, o.ret.df)
                /\ ingested' = o.ret.df
                /\ replaced' = (ingested # None /\ ingested # o.ret.df)
                /\ selected' = "Overview"
                /\ view' = Rendered("overview", show_data_overview(df'), FALSE)
           ELSE /\ view' = UploadScreen(UploadError(o.ret))
                /\ UNCHANGED <<df, ingested, replaced, selected>>
        /\ UNCHANGED <<uploaded, opened, column, derived>>
Upload(u) ==
    \E o \in process_spotify_zip(u) :
        /\ result' = o.ret
        /\ lastop' = "show_data_upload"
        /\ IF Accepted(o.ret)
           THEN /\ df' = install_df(df, o.ret.df)
                /\ data_loaded' = TRUE
                /\ ingested' = o.ret.df
                /\ replaced' = (ingested # None /\ ingested # o.ret.df)
                /\ selected' = "Overview"
                /\ view' = Rendered("overview", show_data_overview(df'), FALSE)
           ELSE /\ view' = UploadScreen(UploadError(o.ret))
                /\ UNCHANGED <<df, data_loaded, ingested, replaced, selected>>
        /\ UNCHANGED <<uploaded, opened, column, derived>>

ShowDataUpload ==
    /\ ~data_loaded
    /\ \/ Upload(NotZip)
       \/ \E names \in NameLists(MaxSessEntries) : \E kinds \in [DOMAIN names -> EntryKinds] :
             LET m == Cardinality({i \in DOMAIN names : kinds[i] = "array"})
             IN  \E recs \in (IF m = 0 THEN {<<>>} ELSE SeqsUpTo(Records, MaxRecs)) :
                    \E cuts \in CutsOf(m, Len(recs)) :
                       Upload(ArchiveOf(names, kinds, cuts, recs))

\* the options of the navigation radio (app.py 46-52), without the emoji
NavigationOptions == {"Overview", "Songs", "Artists", "Time", "Platform"}

\* the page main() renders for a selection of the radio (app.py 68-80); a
\* selection that matches no branch renders nothing
main_page(loaded, selection) ==
    IF loaded
    THEN CASE selection = "Overview" -> "overview"
           [] selection = "Songs" -> "page1"
           [] selection = "Artists" -> "page2"
           [] selection = "Time" -> "page4"
           [] selection = "Platform" -> "page5"
           [] OTHER -> "none"
    ELSE "upload"

\* a page is rendered: the session keeps the object its df refers to
Show(page, w, caught) ==
    /\ selected' \in NavigationOptions
    /\ page = main_page(data_loaded, selected')
    /\ df' = w.sess
    /\ view' = Rendered(page, w, caught)
    /\ lastop' = page
    /\ UNCHANGED <<data_loaded, result, ingested, replaced, uploaded, opened, column, derived>>

\* "Overview" is selected
ShowDataOverview ==
    /\ data_loaded
    /\ selected' = "Overview"
    /\ Show("overview", show_data_overview(df), FALSE)

\* "Load Different File" is pressed on the overview
\* "Load Different File" with line 121 left out: the flag stays set
LoadDifferentFile_keep_flag ==
    /\ data_loaded
    /\ selected = "Overview"
    /\ data_loaded' = data_loaded
    /\ df' = reset_df(df)
    /\ selected' = NoSelection
    /\ view' = UploadScreen(NoError)
    /\ lastop' = "reset"
    /\ UNCHANGED <<result, ingested, replaced, uploaded, opened, column, derived>>
LoadDifferentFile ==
    /\ data_loaded
    /\ selected = "Overview"
    /\ data_loaded' = FALSE
    /\ df' = reset_df(df)
    /\ selected' = NoSelection
    /\ view' = UploadScreen(NoError)
    /\ lastop' = "reset"
    /\ UNCHANGED <<result, ingested, replaced, uploaded, opened, column, derived>>

\* the options of the year and device select boxes of a page that has
\* come as far as its widgets (w is the page without filters)
YearOptions(w) == IF w.exc = "none" THEN Options(Years(w)) ELSE {AllYears}
DeviceOptions(w) ==
    IF w.exc = "none" THEN Options(Series(w, "device_type")) ELSE {AllDevices}

\* "Songs" is selected, or a filter of the songs page is changed
ShowPage1 ==
    /\ data_loaded
    /\ selected' = "Songs"
    /\ LET base == page1_prepare(df)
       IN  \E y \in YearOptions(base), d \in DeviceOptions(base),
              include_skipped \in BOOLEAN, min_seconds \in MinSecondsChoices :
                 Show("page1", page1_show(df, y, d, include_skipped, min_seconds), TRUE)

\* "Artists" is selected, or a filter of the artists page is changed
ShowPage2 ==
    /\ data_loaded
    /\ selected' = "Artists"
    /\ \E y \in YearOptions(page2_prepare(df)),
          include_skipped \in BOOLEAN, min_seconds \in MinSecondsChoices :
             Show("page2", page2_show(df, y, include_skipped, min_seconds), TRUE)

\* "Time" is selected, or a filter of the temporal page is changed; the
\* device class is computed outside the try block
ShowPage4 ==
    /\ data_loaded
    /\ selected' = "Time"
    /\ LET base == page4_prepare(df)
       IN  \E y \in YearOptions(base), d \in DeviceOptions(base) :
              Show("page4", page4_show(df, y, d), PLATFORM \in df.columns)

\* "Platform" is selected, or a filter of the platform page is changed
ShowPage5 ==
    /\ data_loaded
    /\ selected' = "Platform"
    /\ LET base == page5_prepare(df)
       IN  \E y \in YearOptions(base),
              include_skipped \in BOOLEAN, min_seconds \in MinSecondsChoices :
                 Show("page5", page5_show(df, y, include_skipped, min_seconds),
                      PLATFORM \in df.columns)

Next ==
    \/ ShowDataUpload
    \/ ShowDataOverview
    \/ LoadDifferentFile
    \/ ShowPage1
    \/ ShowPage2
    \/ ShowPage4
    \/ ShowPage5

Spec == Init /\ [][Next]_vars

---------------------------------------------------------------------------
(* What an upload holds, stated on the upload itself.                      *)

\* the names of the catalogue that are audio-history JSON files
AudioHistoryNames == {NameAudio1, NameAudio2}

MatchingEntries(u) == SelectSeq(u.entries, LAMBDA e : e.name \in AudioHistoryNames)

AllArrays(u) == \A i \in DOMAIN MatchingEntries(u) : MatchingEntries(u)[i].content.kind = "array"

RECURSIVE Concat(_)
Concat(es) == IF es = <<>> THEN <<>> ELSE Head(es).content.items \o Concat(Tail(es))

\* the records of the matching entries, in entry order
Merged(u) == Concat(MatchingEntries(u))

\* the required fields that are a key of no record
Absent(u) ==
    {c \in Range(required_columns) : \A i \in DOMAIN Merged(u) : c \notin DOMAIN Merged(u)[i]}

Unparseable(u) ==
    \E i \in DOMAIN Merged(u) :
        /\ TS \in DOMAIN Merged(u)[i]
        /\ ~IsNull(Merged(u)[i][TS])
        /\ Merged(u)[i][TS][1] \notin DOMAIN TsTable

\* every stage of the ingestion succeeds
FullySuccessful(u) ==
    /\ u.zip
    /\ MatchingEntries(u) # <<>>
    /\ AllArrays(u)
    /\ Merged(u) # <<>>
    /\ Absent(u) = {}
    /\ ~Unparseable(u)

Done == result # NoResult

IsFailure(r) == DOMAIN r = {"is_valid", "error"} /\ ~r.is_valid /\ r.error.msg # ""
IsSuccess(r) == DOMAIN r = {"is_valid", "df"} /\ r.is_valid

---------------------------------------------------------------------------
\* C1: process_spotify_zip returns a dictionary for every upload and raises
\* nothing: a failed ingestion gives is_valid = False, a non-empty error and
\* no 'df'; is_valid = True comes with a 'df' and only when every stage of
\* the ingestion has succeeded.
C1_AlwaysAResult ==
    Done => /\ "raised" \notin DOMAIN result
            /\ IF FullySuccessful(uploaded) THEN IsSuccess(result) ELSE IsFailure(result)

\* an unparseable timestamp, recovered by the generic handler
C1_Witness ==
    /\ Done
    /\ uploaded.zip /\ MatchingEntries(uploaded) # <<>> /\ AllArrays(uploaded)
    /\ Absent(uploaded) = {} /\ Unparseable(uploaded)
    /\ IsFailure(result)
    /\ result.error.msg = MsgGeneric

\* C2: if a matching entry is not valid JSON, the ingestion fails with the
\* malformed-record error ('Invalid JSON format in streaming history files')
\* and no dataset, whatever the other matching entries hold.
C2_FailFastMalformed ==
    (/\ Done
     /\ uploaded.zip
     /\ \E i \in DOMAIN MatchingEntries(uploaded) :
           MatchingEntries(uploaded)[i].content.kind \in {"bad_json", "bad_bytes"})
    => result = Failure(MsgBadJson, <<>>)

\* C3: when the merged records lack required columns, the error is the
\* missing-columns error and names exactly the required fields that are a key
\* of no record; a field that is a key of some record is present, null or not.
C3_MissingNamesAbsent ==
    (/\ Done
     /\ uploaded.zip /\ MatchingEntries(uploaded) # <<>> /\ AllArrays(uploaded)
     /\ Merged(uploaded) # <<>>
     /\ Absent(uploaded) # {})
    => /\ IsFailure(result)
       /\ result.error.msg = MsgMissing
       /\ Range(result.error.args) = Absent(uploaded)
       /\ Len(result.error.args) = Cardinality(Absent(uploaded))

\* two fields absent, two present with null values only
C3_Witness ==
    /\ Done
    /\ uploaded.zip
    /\ Merged(uploaded) = <<RecNulls>>
    /\ result = Failure(MsgMissing, <<TS, TRACK>>)

\* C4: a zip is rejected with the no-files error exactly when no entry name
\* contains '_Audio_' and ends with '.json'; other entries are never opened.
C4_NoMatchingFiles ==
    Done => /\ (result = Failure(MsgNoFiles, <<>>))
                <=> (uploaded.zip /\ MatchingEntries(uploaded) = <<>>)
            /\ Range(opened) \subseteq AudioHistoryNames
            /\ uploaded.zip /\ MatchingEntries(uploaded) = <<>> => opened = <<>>

\* a zip with a video-history JSON and an audio-history text file only
C4_Witness ==
    /\ Done
    /\ uploaded.zip
    /\ {uploaded.entries[i].name : i \in DOMAIN uploaded.entries} = {NameVideo, NameAudioTxt}
    /\ result = Failure(MsgNoFiles, <<>>)
    /\ opened = <<>>

\* C5: matching entries that all parse and hold no record give the
\* no-data error, not the no-files or the missing-columns error, and a
\* valid result never holds an empty dataset.
C5_EmptyPayload ==
    Done => /\ (/\ uploaded.zip /\ MatchingEntries(uploaded) # <<>>
                /\ AllArrays(uploaded) /\ Merged(uploaded) = <<>>)
                => result = Failure(MsgNoData, <<>>)
            /\ "df" \in DOMAIN result => result.df.rows # <<>>

\* two matching entries, both the empty array
C5_Witness ==
    /\ Done
    /\ uploaded.zip
    /\ Len(MatchingEntries(uploaded)) = 2
    /\ AllArrays(uploaded) /\ Merged(uploaded) = <<>>
    /\ result = Failure(MsgNoData, <<>>)

\* C6: the dataset of a successful ingestion is in ascending order of
\* timestamp, and rows with equal timestamps are in the order in which they
\* were concatenated (ascending index label).
C6_SortedStable ==
    (Done /\ "df" \in DOMAIN result) =>
        \A i, j \in DOMAIN result.df.rows :
            i < j =>
                LET a == result.df.rows[i]
                    b == result.df.rows[j]
                IN  /\ IsNull(a.cells[TS]) => IsNull(b.cells[TS])
                    /\ (~IsNull(a.cells[TS]) /\ ~IsNull(b.cells[TS]))
                          => ~Before(b.cells[TS][1], a.cells[TS][1])
                    /\ a.cells[TS] = b.cells[TS] => a.label < b.label

---------------------------------------------------------------------------
(* The device-class rule alone: a column of raw platform values, and each  *)
(* page's copy of the rule applied to it.                                  *)

PlatformInputs ==
    {Val("android"), Val("ios"), Val("windows"), Val("osx"), Val("linux"),
     Val("Android"), Val("iOS"), Val("web player"),
     Val("Android OS 10 API 29 (samsung, SM-G960U)"), Val("weird_kiosk_v2"), NaN}

NoDerived == [r \in {} |-> <<>>]

InitDerived(inputs) ==
    /\ column \in SeqsUpTo(inputs, MaxCol)
    /\ derived = NoDerived
    /\ uploaded = NotZip
    /\ result = NoResult
    /\ opened = <<>>
    /\ data_loaded = FALSE
    /\ df = None
    /\ selected = NoSelection
    /\ ingested = None
    /\ lastop = "init"
    /\ view = NoView
    /\ replaced = FALSE

\* a page applies its rule to the column
Derive(rule, values) ==
    /\ rule \notin DOMAIN derived
    /\ derived' = (rule :> values) @@ derived
    /\ lastop' = rule
    /\ UNCHANGED <<uploaded, result, opened, data_loaded, df, selected, ingested, view,
                   replaced, column>>

Page1Categorize == Derive("page1", [i \in DOMAIN column |-> page1_categorize_platform(column[i])])
Page4Categorize == Derive("page4", [i \in DOMAIN column |-> page4_categorize_platform(column[i])])
Page5Categorize == Derive("page5", [i \in DOMAIN column |-> page5_categorize_platform(column[i])])

InitPlatform == InitDerived(PlatformInputs)
NextPlatform == Page1Categorize \/ Page4Categorize \/ Page5Categorize
SpecPlatform == InitPlatform /\ [][NextPlatform]_vars

(* The part-of-day rule alone: a column of hours of the day.               *)

HourInputs == {Val(h) : h \in 0..23} \cup {NaN}

Page4PartOfDay == Derive("page4", [i \in DOMAIN column |-> page4_part_of_day(column[i])])
Page5PartOfDay == Derive("page5", [i \in DOMAIN column |-> page5_part_of_day(column[i])])

InitPartOfDay == InitDerived(HourInputs)
NextPartOfDay == Page4PartOfDay \/ Page5PartOfDay
SpecPartOfDay == InitPartOfDay /\ [][NextPartOfDay]_vars

---------------------------------------------------------------------------
\* the device class the classification rule assigns
ExpectedClass(platform) ==
    CASE platform = Val("android") -> "Mobile"
      [] platform = Val("ios") -> "Mobile"
      [] platform = Val("windows") -> "Desktop"
      [] platform = Val("osx") -> "Desktop"
      [] platform = Val("linux") -> "Desktop"
      [] OTHER -> "Web"

\* C9: every copy of categorize_platform maps 'android' and 'ios' to Mobile,
\* 'windows', 'osx' and 'linux' to Desktop and every other value, a missing
\* one included, to Web; the three copies agree on every input.
C9_PlatformClass ==
    /\ \A r \in DOMAIN derived :
          /\ Len(derived[r]) = Len(column)
          /\ \A i \in DOMAIN column : derived[r][i] = ExpectedClass(column[i])
    /\ \A r1, r2 \in DOMAIN derived : derived[r1] = derived[r2]

\* the three copies applied to a desktop platform and a differently-cased
\* mobile platform
C9_Witness ==
    /\ DOMAIN derived = {"page1", "page4", "page5"}
    /\ column = <<Val("linux"), Val("Android")>>
    /\ derived["page1"] = <<"Desktop", "Web">>

\* the half-open part-of-day bucket of an hour
ExpectedPartOfDay(h) ==
    IF h < 6 THEN "Night (12AM-6AM)"
    ELSE IF h < 12 THEN "Morning (6AM-12PM)"
    ELSE IF h < 18 THEN "Afternoon (12PM-6PM)"
    ELSE "Evening (6PM-12AM)"

\* C10: every hour h of 0..23 receives exactly one bucket: Night for
\* 0 <= h < 6, Morning for 6 <= h < 12, Afternoon for 12 <= h < 18, Evening
\* for 18 <= h < 24.
C10_PartOfDayHalfOpen ==
    \A r \in DOMAIN derived :
        \A i \in DOMAIN column :
            ~IsNull(column[i]) => derived[r][i] = Val(ExpectedPartOfDay(column[i][1]))

---------------------------------------------------------------------------
\* C7: while a dataset is loaded, no page render, navigation or filter
\* change alters st.session_state.df: its records, columns and order stay
\* those the ingestion produced.
C7_ViewsLeaveDataset == [][(data_loaded /\ data_loaded') => df' = df]_vars

\* the temporal page rendered without filters: its derived columns were
\* assigned to the copy, and the session's dataset is the ingested one
C7_Witness ==
    /\ data_loaded
    /\ lastop = "page4"
    /\ view.exc = "none"
    /\ {"device_type", "year", "part_of_day"} \subseteq view.frame.columns
    /\ Len(view.frame.rows) = Len(df.rows)
    /\ "device_type" \notin df.columns
    /\ df = ingested

\* C8: a loaded dataset is the dataset of the most recent successful
\* ingestion, whole and with nothing of an earlier one; while none is loaded,
\* after a reset included, the session holds no dataset.
C8_WholesaleReplacement ==
    /\ data_loaded => df = ingested /\ result = Success(df)
    /\ ~data_loaded => df = None

\* a second dataset, different from the first, installed after a reset
C8_Witness ==
    /\ data_loaded
    /\ replaced
    /\ lastop = "show_data_upload"
    /\ df = ingested

---------------------------------------------------------------------------
(* The filtered record set of a view, stated on the session's dataset.     *)

AnalyticalPages == {"page1", "page2", "page4", "page5"}

\* the view on screen is an analytical page that has applied its filters
ViewFiltered == view.page \in AnalyticalPages /\ view.filtered

\* the record satisfies every active predicate of the filters f (a record
\* without a timestamp is of no year)
Satisfies(cells, f) ==
    /\ f.selected_year.all
          \/ (~IsNull(cells[TS]) /\ YearOf(cells[TS]) = f.selected_year.value)
    /\ f.selected_device.all
          \/ Val(ExpectedClass(cells[PLATFORM])) = f.selected_device.value
    /\ f.include_skipped \in {NaN, Val(TRUE)} \/ cells[SKIPPED] # Val(TRUE)
    /\ IsNull(f.min_seconds)
          \/ (~IsNull(cells[MS]) /\ cells[MS][1] >= f.min_seconds[1] * 1000)

\* the index labels of the rows of a frame
Labels(frame) == {frame.rows[i].label : i \in DOMAIN frame.rows}

\* the labels of the records of the dataset that satisfy f
Satisfying(frame, f) ==
    {frame.rows[i].label : i \in {j \in DOMAIN frame.rows : Satisfies(frame.rows[j].cells, f)}}

\* a record played for 0 ms and skipped
IsZeroSkip(cells) == cells[MS] = Val(0) /\ cells[SKIPPED] = Val(TRUE)

\* C11: the filtered record set of a view is exactly the set of records of
\* the dataset that satisfy every active predicate (year, device class, not
\* skipped unless included, ms_played >= min_seconds * 1000 with equality
\* kept), each once; so it is never larger than the dataset.  A record with
\* ms_played = 0 and skipped = true is out under the defaults (skips
\* excluded, 30 s) and in with include_skipped and min_seconds = 0.
C11_FilterExact ==
    ViewFiltered =>
        /\ Labels(view.frame) = Satisfying(df, view.filters)
        /\ Len(view.frame.rows) = Cardinality(Labels(view.frame))
        /\ Len(view.frame.rows) <= Len(df.rows)
        /\ \A i \in DOMAIN df.rows :
              IsZeroSkip(df.rows[i].cells) =>
                /\ (view.filters.include_skipped = Val(FALSE) /\ view.filters.min_seconds = Val(30))
                      => df.rows[i].label \notin Labels(view.frame)
                /\ (/\ view.filters.include_skipped = Val(TRUE)
                    /\ view.filters.min_seconds = Val(0)
                    /\ view.filters.selected_year.all /\ view.filters.selected_device.all)
                      => df.rows[i].label \in Labels(view.frame)

\* the songs page under the default filters: the record played for exactly
\* 30 s is kept, the skipped record played for 0 ms is not
C11_Witness ==
    /\ view.page = "page1" /\ view.filtered
    /\ view.filters = Filters(AllYears, AllDevices, Val(FALSE), Val(30))
    /\ Len(df.rows) = 2
    /\ \E i \in DOMAIN df.rows : IsZeroSkip(df.rows[i].cells)
    /\ Len(view.frame.rows) = 1
    /\ view.frame.rows[1].cells[MS] = Val(30000)

\* the pages with the "Include Skipped Songs" checkbox
SkipPages == {"page1", "page2", "page5"}

\* C12: a record whose skipped value is null counts as not skipped: with
\* skip inclusion off, a page with the skip filter completes without an
\* error on a dataset with a skipped column, null values included, and keeps
\* exactly the records whose skipped value is not true (and that satisfy the
\* other filters).
C12_NullSkippedKept ==
    (/\ view.page \in SkipPages
     /\ view.filters.include_skipped = Val(FALSE)
     /\ SKIPPED \in df.columns)
    => /\ view.exc = "none"
       /\ view.filtered
       /\ Labels(view.frame) = Satisfying(df, view.filters)

\* the view on screen has computed its grouping
ViewGrouped(page) == view.page = page /\ view.filtered /\ view.exc = "none"

\* C13: for the grouping of a view (by track identity on the songs page, by
\* artist on the artists page, by device class on the platform page) the
\* per-group totals of ms_played add up to the total of the filtered record
\* set, and the per-group play counts to the number of filtered records, also
\* when filtered records have a null track, artist or album name.
C13_PartitionLaw ==
    /\ ViewGrouped("page1") =>
          /\ SumGroups(view.out.songs_df, "ms_played") = SumMs(view.frame.rows)
          /\ SumGroups(view.out.songs_df, "play_count") = Len(view.frame.rows)
    /\ ViewGrouped("page2") =>
          /\ SumGroups(view.out.artists_df, "ms_played") = SumMs(view.frame.rows)
          /\ SumGroups(view.out.artists_df, "total_plays") = Len(view.frame.rows)
    /\ ViewGrouped("page5") =>
          /\ SumGroups(view.out.device_stats, "ms_played") = SumMs(view.frame.rows)
          /\ SumGroups(view.out.device_stats, "plays") = Len(view.frame.rows)

\* the fields of a streaming record
RecordFields == {TS, TRACK, ARTIST, ALBUM, MS, PLATFORM, SKIPPED, SHUFFLE}

\* C14: when the filters of a view leave no record (of a dataset that has
\* every field), the view computes its tables and metrics as empty or zero
\* values and ends without an exception or a processing error.
C14_EmptySetSafe ==
    (/\ ViewFiltered
     /\ RecordFields \subseteq df.columns
     /\ view.frame.rows = <<>>)
    => view.exc = "none"

---------------------------------------------------------------------------
(* The distribution metrics alone (pages/page3.py): the column 'Total Time *)
(* (ms)' of a grouping, one value per group in the order of the group      *)
(* names, and the metrics of page3 computed from it.                       *)

\* the largest number of groups, and the hours a group may have
MaxGroups == 6
GroupHours == {0, 1, 4}

\* the grouping of the example: hours 50, 10, 10, 5, 5, 5, 5, 3, 3, 3
ExampleHours == <<5, 50, 3, 10, 5, 3, 10, 5, 3, 5>>

TotalTimeInputs ==
    {[i \in DOMAIN hours |-> hours[i] * MsPerHour] :
        hours \in SeqsUpTo(GroupHours, MaxGroups) \cup {ExampleHours}}

InitDistribution ==
    /\ column \in TotalTimeInputs
    /\ derived = NoDerived
    /\ uploaded = NotZip
    /\ result = NoResult
    /\ opened = <<>>
    /\ data_loaded = FALSE
    /\ df = None
    /\ selected = NoSelection
    /\ ingested = None
    /\ lastop = "init"
    /\ view = NoView
    /\ replaced = FALSE

Page3Metrics == Derive("page3", page3_metrics(column))

NextDistribution == Page3Metrics
SpecDistribution == InitDistribution /\ [][NextDistribution]_vars

\* the distribution metrics have been computed without an exception
Page3Done == "page3" \in DOMAIN derived /\ derived["page3"].exc = "none"

\* the sum of the values of a sequence at a set of positions
RECURSIVE SumAt(_, _)
SumAt(values, at) ==
    IF at = {} THEN 0
    ELSE LET i == CHOOSE i \in at : TRUE IN values[i] + SumAt(values, at \ {i})

\* the largest total that k of the groups have together
LargestTotal(values, k) ==
    LET totals == {SumAt(values, at) : at \in {a \in SUBSET DOMAIN values : Cardinality(a) = k}}
    IN  CHOOSE t \in totals : \A u \in totals : u <= t

\* the size of the smallest set of groups, taken from the largest hours
\* downward, whose hours reach 80% of the total
ConcentrationCount(values) ==
    CHOOSE k \in 0..Len(values) :
        /\ LargestTotal(values, k) * 5 >= 4 * SumSeq(values)
        /\ \A j \in 0..(k - 1) : LargestTotal(values, j) * 5 < 4 * SumSeq(values)

\* C15: the concentration count of the distribution view is the size of the
\* smallest set of groups, taken from the largest hours downward, whose hours
\* reach at least 80% of the total: 5 for hours [50,10,10,5,5,5,5,3,3,3], and
\* between 1 and the number of groups whenever the total is positive.
C15_ConcentrationCount ==
    (Page3Done /\ SumSeq(column) > 0) =>
        /\ derived["page3"].items_80_percent = ConcentrationCount(column)
        /\ derived["page3"].items_80_percent \in 1..Len(column)
        /\ column = [i \in DOMAIN ExampleHours |-> ExampleHours[i] * MsPerHour]
              => derived["page3"].items_80_percent = 5

\* C19: with n groups the top-20% count is k = floor(n * 0.2), which is 0 for
\* n < 5; the top-20% hours are the hours of the k largest groups and 0 when
\* k = 0; the rest is the total less the top, so the two parts add up to the
\* total.
C19_TopTwentyFloor ==
    Page3Done =>
        LET m == derived["page3"]
            n == Len(column)
        IN  /\ m.total_items = n
            /\ 5 * m.top_20_percent_count <= n /\ n < 5 * m.top_20_percent_count + 5
            /\ n < 5 => m.top_20_percent_count = 0
            /\ m.top_20_hours = LargestTotal(column, m.top_20_percent_count)
            /\ m.top_20_percent_count = 0 => m.top_20_hours = 0
            /\ m.rest_hours = SumSeq(column) - m.top_20_hours
            /\ m.top_20_hours + m.rest_hours = SumSeq(column)

\* six groups: the top 20% is the one group of 4 hours, the rest has 5 hours
C19_Witness ==
    /\ Page3Done
    /\ column = [i \in 1..6 |-> (IF i = 3 THEN 4 ELSE 1) * MsPerHour]
    /\ derived["page3"].top_20_percent_count = 1
    /\ derived["page3"].top_20_hours = 4 * MsPerHour
    /\ derived["page3"].rest_hours = 5 * MsPerHour

---------------------------------------------------------------------------
\* the temporal page has reported a year-over-year change
YoYReported == view.page = "page4" /\ "yoy" \in DOMAIN view.out /\ view.out.yoy.reported

\* the total ms_played of the filtered records of a year (their hours are
\* this total / MsPerHour)
HoursOfYear(rows, year) ==
    SumMs(SelectSeq(rows, LAMBDA row : YearOf(row.cells[TS]) = Val(year)))

\* C16: the year-over-year change compares the latest year Y of the data
\* with the year Y-1, as (hours(Y) - hours(Y-1)) / hours(Y-1) * 100; when the
\* year before the latest is not in the data, no change is reported.
C16_YoYAdjacentYears ==
    YoYReported =>
        LET yoy == view.out.yoy
        IN  /\ yoy.previous_year = yoy.latest_year - 1
            /\ yoy.yoy_change.kind = "finite" =>
                  yoy.yoy_change.num * HoursOfYear(view.frame.rows, yoy.previous_year)
                  = yoy.yoy_change.den * 100
                      * (HoursOfYear(view.frame.rows, yoy.latest_year)
                         - HoursOfYear(view.frame.rows, yoy.previous_year))

\* C17: when the hours of the previous year are 0, the year-over-year
\* percentage is not computed by a division by them: no infinite or
\* undefined percentage is reported.
C17_YoYZeroGuard ==
    (/\ YoYReported
     /\ view.out.yoy.previous_hours = Val(0)
     /\ ~IsNull(view.out.yoy.latest_hours))
    => view.out.yoy.yoy_change.kind \notin {"inf", "nan"}

---------------------------------------------------------------------------
\* the first stage of the ingestion that fails on an upload
FirstFailingStage(u) ==
    IF ~u.zip THEN "open archive"
    ELSE IF MatchingEntries(u) = <<>> THEN "select entries"
    ELSE IF ~AllArrays(u) THEN "parse entries"
    ELSE IF Merged(u) = <<>> THEN "check non-empty"
    ELSE IF Absent(u) # {} THEN "check columns"
    ELSE IF Unparseable(u) THEN "parse timestamps"
    ELSE "none"

\* the stage an error of process_spotify_zip comes from
StageOfError(error) ==
    CASE error.msg = MsgBadZip -> "open archive"
      [] error.msg = MsgNoFiles -> "select entries"
      [] error.msg = MsgBadJson -> "parse entries"
      [] error.msg = MsgNoData -> "check non-empty"
      [] error.msg = MsgMissing -> "check columns"
      [] error.msg = MsgGeneric /\ error.args = <<ExcText("ValueError")>> -> "parse timestamps"
      [] OTHER -> "parse entries"

\* C18: the stages of the ingestion run in the order open archive, select
\* entries, parse every matching entry, check non-empty, check columns,
\* parse timestamps, sort, and a failed ingestion reports the error of the
\* first stage that fails: records without a ts column give the
\* missing-columns error and no value or processing error, and matching
\* entries that are all empty give the no-data error, not the
\* missing-columns error.
C18_StageOrder ==
    Done =>
        /\ IsFailure(result) <=> FirstFailingStage(uploaded) # "none"
        /\ IsFailure(result) => StageOfError(result.error) = FirstFailingStage(uploaded)
        /\ (uploaded.zip /\ AllArrays(uploaded)) =>
              opened = [i \in DOMAIN MatchingEntries(uploaded) |-> MatchingEntries(uploaded)[i].name]
        /\ (FirstFailingStage(uploaded) \in {"check columns", "parse timestamps", "none"}
            /\ TS \in Absent(uploaded))
              => result.error.msg = MsgMissing
        /\ FirstFailingStage(uploaded) = "check non-empty" => result.error.msg = MsgNoData

\* two matching entries, an empty array and one record without ts: both are
\* read, and the missing-columns error is the one reported
C18_Witness ==
    /\ Done
    /\ uploaded.zip
    /\ Len(opened) = 2
    /\ \E i \in DOMAIN uploaded.entries : uploaded.entries[i].content = Array(<<>>)
    /\ Merged(uploaded) = <<RecNulls>>
    /\ TS \in Absent(uploaded)
    /\ result.error.msg = MsgMissing

---------------------------------------------------------------------------
\* C20: a reported metric is rounded once, as the last step: Total Hours of
\* the songs page and of the artists page is the total ms_played of the
\* grouped records / 3,600,000, rounded to two decimals, and not a sum of
\* hours that were rounded per group.
C20_RoundedOnce ==
    /\ ViewGrouped("page1") =>
          view.out.total_hours
          = RoundDiv(SumGroups(view.out.songs_df, "ms_played"), MsPerHour \div 100)
    /\ ViewGrouped("page2") =>
          view.out.total_hours
          = RoundDiv(SumGroups(view.out.artists_df, "ms_played"), MsPerHour \div 100)

---------------------------------------------------------------------------
(* C21: data_loaded and df change together                                  *)

\* the pages main() renders from a dataset (app.py 68-78)
DatasetPages == AnalyticalPages \cup {"overview"}

\* C21: in every state of a session (after initialization, after every
\* upload, successful or failed, after every "Load Different File" and
\* after every navigation) data_loaded is true exactly when df is not None;
\* the overview or an analytical view is on screen only when a dataset is
\* present, and the upload screen only when none is.
C21_LoadedIffDataset ==
    /\ data_loaded <=> (df # None)
    /\ view.page \in DatasetPages => (data_loaded /\ df # None)
    /\ view.page = "upload" => (~data_loaded /\ df = None)
    /\ view.page \in DatasetPages \cup {"upload"}

\* a dataset was loaded and then dropped again by "Load Different File":
\* the flag and the dataset went back together
C21_Witness ==
    /\ lastop = "reset"
    /\ ingested # None
    /\ ~data_loaded
    /\ df = None
    /\ view.page = "upload"

---------------------------------------------------------------------------
(* C22: a failed upload leaves the session as it was                        *)

\* the last run of main() was show_data_upload() and its upload failed
UploadFailed == lastop = "show_data_upload" /\ result # NoResult /\ ~Accepted(result)

\* some upload is accepted from the present state
ValidUploadPossible == ENABLED (ShowDataUpload /\ data_loaded' /\ df' # None)

\* C22: an upload for which process_spotify_zip returns is_valid = False, or
\* raises, changes no session state: data_loaded stays False, df stays None,
\* the navigation stays as it was, the upload screen is shown again with the
\* error; and from the state it leaves a valid upload is still accepted.
C22_FailedUploadNoChange ==
    /\ [][UploadFailed' =>
            /\ UNCHANGED <<data_loaded, df, selected, ingested, replaced>>
            /\ ~data_loaded' /\ df' = None
            /\ view' = UploadScreen(UploadError(result'))]_vars
    /\ [](UploadFailed => ValidUploadPossible)

\* a second attempt failed on the upload screen that "Load Different File"
\* brought back: the rejected file has missing columns, and the session
\* still holds nothing
C22_Witness ==
    /\ UploadFailed
    /\ result.error.msg = MsgMissing
    /\ ingested # None
    /\ ~data_loaded
    /\ df = None
    /\ view = UploadScreen(result.error)

---------------------------------------------------------------------------
(* C23: the views a loaded session can show                                 *)

\* the five analytical views: songs, artists, distribution, temporal,
\* platform
FiveViews == {"page1", "page2", "page3", "page4", "page5"}

\* some option of the navigation radio makes main() render the page
Selectable(page) == \E selection \in NavigationOptions : main_page(data_loaded, selection) = page

\* C23: while a dataset is loaded, each of the five analytical views is
\* rendered under some navigation selection, and what is on screen is the
\* one page main() renders for the present selection: the overview or one of
\* the analytical views.
C23_EveryViewReachable ==
    data_loaded =>
        /\ \A page \in FiveViews : Selectable(page)
        /\ view.page = main_page(data_loaded, selected)
        /\ view.page \in FiveViews \cup {"overview"}

====
